---- MODULE Spec2Model ----
(***************************************************************************)
(* jyt (src/src/main.rs): a converter between JSON, YAML and TOML.         *)
(*                                                                         *)
(* The model follows one run of the program: main parses the options,      *)
(* jyt reads the input and wraps stdout in a BufWriter, transcode_all_input*)
(* drives the per-format document loop, Output::transcode_from copies one  *)
(* document to the sink, jyt flushes, and main turns jyt's result into an  *)
(* exit status.  Text is a sequence of one-token strings; a token counts   *)
(* as one byte of the BufWriter and of the destination.                    *)
(***************************************************************************)
EXTENDS Naturals, Integers, Sequences, FiniteSets, TLC

(* ------------------------------ bounds -------------------------------- *)

\* Longest JSON input buffer, in bytes.
MaxLen == 4
\* Most documents of a YAML input stream.
MaxDocs == 2
\* Most lines of a TOML input.
MaxLines == 2
\* Capacity of the BufWriter (std's is 8 KiB; only its being finite matters).
BufCap == 3
\* The destination fails after accepting 0..MaxBudget bytes, or never.
MaxBudget == 4
\* Longest format token handed to Format::from_str.
MaxTokLen == 4

(* ------------------------------ helpers ------------------------------- *)

SeqsUpTo(S, n) == UNION {[1..k -> S] : k \in 0..n}

Min(a, b) == IF a < b THEN a ELSE b

IsPrefix(p, s) == Len(p) <= Len(s) /\ SubSeq(s, 1, Len(p)) = p

RECURSIVE Flatten(_)
Flatten(ss) == IF ss = <<>> THEN <<>> ELSE Head(ss) \o Flatten(Tail(ss))

Remove(s, drop) == SelectSeq(s, LAMBDA c : c \notin drop)

(* --------------------------- Format registry -------------------------- *)

Formats == {"Json", "Yaml", "Toml"}

Ok(v) == [ok |-> TRUE, val |-> v]
Err(e) == [ok |-> FALSE, err |-> e]

\* impl Display for Format
Display(f) ==
  CASE f = "Json" -> <<"j", "s", "o", "n">>
    [] f = "Yaml" -> <<"y", "a", "m", "l">>
    [] f = "Toml" -> <<"t", "o", "m", "l">>

\* Format::can_output, with TOML wrongly writable
can_output_all(f) == TRUE

\* Format::can_output
can_output(f) ==
  CASE f = "Json" -> TRUE
    [] f = "Yaml" -> TRUE
    [] f = "Toml" -> FALSE

\* Format::from_str matching prefixes of the full names as well
from_str_prefix(s) ==
  IF s # <<>> /\ IsPrefix(s, <<"j", "s", "o", "n">>) THEN Ok("Json")
  ELSE IF s # <<>> /\ IsPrefix(s, <<"y", "a", "m", "l">>) THEN Ok("Yaml")
  ELSE IF s # <<>> /\ IsPrefix(s, <<"t", "o", "m", "l">>) THEN Ok("Toml")
  ELSE Err(<<"'">> \o s \o <<"'", " is not a valid format">>)

\* <Format as FromStr>::from_str
from_str(s) ==
  CASE s = <<"j">> \/ s = <<"j", "s", "o", "n">> -> Ok("Json")
    [] s = <<"y">> \/ s = <<"y", "a", "m", "l">> -> Ok("Yaml")
    [] s = <<"t">> \/ s = <<"t", "o", "m", "l">> -> Ok("Toml")
    [] OTHER -> Err(<<"'">> \o s \o <<"'", " is not a valid format">>)

\* Opt::parse_to
parse_to(s) ==
  LET f == from_str(s) IN
  IF ~f.ok THEN f
  ELSE IF can_output(f.val) THEN Ok(f.val)
  ELSE Err(Display(f.val) \o <<" output is not supported">>)

(* ------------------- BufWriter over the destination ------------------- *)

\* What the destination (stdout) will take: every byte, or `left` more bytes
\* before each further write fails with an error of `kind`.
Budgets ==
  {[limited |-> FALSE, left |-> 0, kind |-> "none"]} \cup
  {[limited |-> TRUE, left |-> n, kind |-> k] :
     n \in 0..MaxBudget, k \in {"BrokenPipe", "Other"}}

\* A writer: the BufWriter's buffer, the bytes the destination has taken, the
\* destination's budget, the bytes accepted by write calls so far (acc) and the
\* error of the last call.
Writer(b, d, bud, a) == [buf |-> b, dest |-> d, bud |-> bud, acc |-> a, err |-> "none"]

\* Stdout::write_all: the destination takes what its budget allows
InnerWrite(w, data) ==
  LET n == IF w.bud.limited THEN Min(Len(data), w.bud.left) ELSE Len(data) IN
  [w EXCEPT !.dest = @ \o SubSeq(data, 1, n),
            !.bud.left = IF w.bud.limited THEN @ - n ELSE @,
            !.err = IF n < Len(data) THEN w.bud.kind ELSE "none"]

\* BufWriter::flush_buf: the bytes the destination took leave the buffer
FlushBuf(w) ==
  LET r == InnerWrite(w, w.buf) IN
  [r EXCEPT !.buf = SubSeq(w.buf, Len(r.dest) - Len(w.dest) + 1, Len(w.buf))]

\* BufWriter::write_all for one write call of the serializer
BufWrite(w, data) ==
  LET f == IF Len(w.buf) + Len(data) > BufCap THEN FlushBuf(w) ELSE w IN
  IF f.err # "none" THEN f
  ELSE IF Len(data) >= BufCap
       THEN LET r == InnerWrite(f, data) IN
            [r EXCEPT !.acc = @ \o SubSeq(data, 1, Len(r.dest) - Len(f.dest))]
       ELSE [f EXCEPT !.buf = @ \o data, !.acc = @ \o data]

\* The write calls of one serializer step, in order, up to the first error
RECURSIVE WriteChunks(_, _)
WriteChunks(w, chunks) ==
  IF chunks = <<>> \/ w.err # "none" THEN w
  ELSE WriteChunks(BufWrite(w, Head(chunks)), Tail(chunks))

\* BufWriter::flush (Stdout::flush writes nothing more)
Flush(w) == FlushBuf(w)

\* impl Drop for BufWriter: no flush of what is still buffered
DropNoFlush(w) == [w EXCEPT !.err = "none"]

\* impl Drop for BufWriter: flush_buf, its error ignored
Drop(w) == [FlushBuf(w) EXCEPT !.err = "none"]

(* ------------------- serializers (serde_json, serde_yaml) ------------- *)

Outputs == {"JsonCompact", "JsonPretty", "Yaml"}

IsJson(out) == out \in {"JsonCompact", "JsonPretty"}

\* PrettyFormatter's indent: one write of two spaces per level
Indent(n) == [i \in 1..n |-> <<" ", " ">>]

\* Formatter::begin_array_value / begin_object_key at nesting depth n
BeginValue(out, first, n) ==
  CASE out = "JsonCompact" -> IF first THEN <<>> ELSE << <<",">> >>
    [] out = "JsonPretty" ->
         << IF first THEN <<"\n">> ELSE <<",", "\n">> >> \o Indent(n)
    [] out = "Yaml" -> IF first THEN <<>> ELSE << <<"\n">> >>

\* Formatter::end_array / end_object closing a container opened at depth n
EndContainer(out, has, n, close) ==
  CASE out = "JsonCompact" -> << <<close>> >>
    [] out = "JsonPretty" ->
         (IF has THEN << <<"\n">> >> \o Indent(n) ELSE <<>>) \o << <<close>> >>
    [] out = "Yaml" -> <<>>

\* The writes for a sequence start, a sequence end, and the scalars
SeqStart(out) == IF IsJson(out) THEN << <<"[">> >> ELSE <<>>
SeqElem(out, first, n) ==
  IF IsJson(out) THEN BeginValue(out, first, n)
  ELSE (IF first THEN <<>> ELSE << <<"\n">> >> \o Indent(n - 1)) \o << <<"-", " ">> >>
SeqEnd(out, has, n) ==
  IF IsJson(out) THEN EndContainer(out, has, n, "]")
  ELSE IF has THEN <<>> ELSE << <<"[", "]">> >>
Number(digits) == << digits >>
Null(out) == IF IsJson(out) THEN << <<"null">> >> ELSE << <<"~">> >>

\* One "key = 1" entry of a TOML table as a map entry
MapEntry(out, key, first) ==
  BeginValue(out, first, 1) \o
  (IF IsJson(out) THEN << <<"\"">>, <<key>>, <<"\"">> >> ELSE << <<key>> >>) \o
  << IF out = "JsonCompact" THEN <<":">> ELSE <<":", " ">> >> \o
  Number(<<"1">>)

RECURSIVE MapEntries(_, _, _)
MapEntries(out, keys, first) ==
  IF keys = <<>> THEN <<>>
  ELSE MapEntry(out, Head(keys), first) \o MapEntries(out, Tail(keys), FALSE)

\* A whole table as one map
Map(out, keys) ==
  IF IsJson(out)
  THEN << <<"{">> >> \o MapEntries(out, keys, TRUE)
       \o EndContainer(out, keys # <<>>, 0, "}")
  ELSE IF keys = <<>> THEN << <<"{", "}">> >> ELSE MapEntries(out, keys, TRUE)

\* serde_yaml's document framing around the emitted value
YamlDocument(body) == << <<"---">>, <<"\n">> >> \o body \o << <<"\n">> >>

(* ------------------------------ inputs -------------------------------- *)

\* JSON input: every buffer over a digit, a space, the array brackets and the
\* comma.
JsonChars == {"1", " ", "[", "]", ","}
JsonInputs == SeqsUpTo(JsonChars, MaxLen)

\* YAML input: a stream of "---"-introduced documents, each an integer, a flow
\* sequence, an unterminated flow sequence, a stray "]" or nothing (null).
YamlDocs ==
  {<<"1">>, <<"[", "1", ",", "1", "]">>, <<"[", "1">>, <<"]">>, <<>>}
YamlInputs ==
  {Flatten([i \in 1..Len(ds) |-> <<"---">> \o ds[i]]) :
     ds \in SeqsUpTo(YamlDocs, MaxDocs)}

\* TOML input: lines "a = 1" and "b = 1", a malformed line, and a byte that
\* is not UTF-8.
TomlLines == {"a=1", "b=1", "?", "0xFF"}
TomlInputs == SeqsUpTo(TomlLines, MaxLines)

Inputs(f) ==
  CASE f = "Json" -> JsonInputs
    [] f = "Yaml" -> YamlInputs
    [] f = "Toml" -> TomlInputs

(* ------------- deserializers (serde_json, serde_yaml, toml) ----------- *)

\* parse_whitespace: the first position at or after i that holds no space
RECURSIVE SkipWs(_, _)
SkipWs(inp, i) ==
  IF i <= Len(inp) /\ inp[i] = " " THEN SkipWs(inp, i + 1) ELSE i

\* the number scan that stops on its first digit
NumEndShort(inp, i) == i - 1

\* the last digit of the number that starts at i
RECURSIVE NumEnd(_, _)
NumEnd(inp, i) ==
  IF i < Len(inp) /\ inp[i + 1] = "1" THEN NumEnd(inp, i + 1) ELSE i

\* The input ends, or the YAML document does, at position i
AtEnd(inp, i) == i > Len(inp) \/ inp[i] = "---"

\* serde_json::Deserializer::end: Ok exactly at the end of the buffer, the
\* whitespace before it consumed either way
JsonEnd(inp, off) ==
  LET j == SkipWs(inp, off + 1) IN [ok |-> j > Len(inp), offset |-> j - 1]

\* toml: the keys of the table, or a failure on a malformed line or a
\* duplicate key; the whole text is parsed before any value is visited
TomlKeys(inp) == [i \in 1..Len(inp) |-> IF inp[i] = "a=1" THEN "a" ELSE "b"]
TomlBad(inp) ==
  \/ \E i \in 1..Len(inp) : inp[i] = "?"
  \/ \E i, j \in 1..Len(inp) : i < j /\ inp[i] = inp[j]

\* str::from_utf8
from_utf8_ok(inp) == \A i \in 1..Len(inp) : inp[i] # "0xFF"

\* One step of serde_transcode::transcode: the deserializer reads the next
\* event at the cursor and the visitor hands it to the serializer.  stack
\* holds, per open sequence, whether it has an element yet.  The result: the
\* cursor and stack after the step, the serializer's write calls, whether the
\* deserializer failed (after those calls), and whether the document's value
\* is complete.
Event(fmt, out, inp, off, stack) ==
  LET n == Len(stack)
      j == SkipWs(inp, off + 1)
      \* past the comma that separates the elements of a sequence
      k == IF n > 0 /\ stack[n] /\ ~AtEnd(inp, j) /\ inp[j] = ","
           THEN SkipWs(inp, j + 1) ELSE j
      fail(ch) == [err |-> TRUE, offset |-> off, stack |-> stack,
                   chunks |-> ch, done |-> FALSE]
      step(o, st, ch, d) ==
        [err |-> FALSE, offset |-> o, stack |-> st, chunks |-> ch, done |-> d]
      open == IF n = 0 THEN <<>> ELSE [stack EXCEPT ![n] = TRUE]
      elem == IF n = 0 THEN <<>> ELSE SeqElem(out, ~stack[n], n)
  IN
  IF fmt = "Toml" THEN
    IF TomlBad(inp) THEN fail(<<>>)
    ELSE step(Len(inp), <<>>, Map(out, TomlKeys(inp)), TRUE)
  ELSE IF AtEnd(inp, j) THEN
    IF n = 0 /\ fmt = "Yaml" THEN step(j - 1, <<>>, Null(out), TRUE)
    ELSE fail(<<>>)
  ELSE IF n > 0 /\ inp[j] = "]" THEN
    step(j, SubSeq(stack, 1, n - 1), SeqEnd(out, stack[n], n - 1), n = 1)
  ELSE IF n > 0 /\ stack[n] /\ inp[j] # "," THEN fail(<<>>)
  ELSE IF AtEnd(inp, k) \/ (k > j /\ inp[k] = "]") THEN fail(<<>>)
  ELSE IF inp[k] = "1" THEN
    LET e == NumEnd(inp, k) IN
    step(e, open, elem \o Number(SubSeq(inp, k, e)), n = 0)
  ELSE IF inp[k] = "[" THEN
    step(k, Append(open, FALSE), elem \o SeqStart(out), FALSE)
  ELSE fail(elem)

(* ------------------------------- state -------------------------------- *)

VARIABLES
  pc,            \* where the run is: main, jyt, loop, doc, newline, flush, ret, exit, panic
  argv,          \* the command line, until Opt::from_args_safe has made an Opt of it
  opt,           \* the parsed Opt (to, from, input_filename), until jyt consumes it
  from,          \* the input format transcode_all_input is called with
  output,        \* the Output jyt built: JsonPretty, JsonCompact or Yaml
  input,         \* the input slice
  offset,        \* the deserializer's cursor: how much of input is consumed
  stack,         \* the open sequences of the document being transcoded
  pending,       \* the YAML serializer's document, written when it is complete
  buf,           \* the BufWriter's buffer
  dest,          \* the bytes stdout has taken
  budget,        \* what stdout will still take
  result,        \* jyt's return value, once it has returned
  exitCode,      \* the process's exit status (read at pc = "exit")
  stderr,        \* what main printed to stderr
  docsRead,      \* documents handed to transcode_from so far
  docsWritten,   \* documents transcode_from has returned Ok for
  written,       \* every byte the sink has accepted
  docEnds,       \* Len(written) at the return of each successful transcode_from
  docStart,      \* the cursor when the current document was handed over
  explicitFlush, \* jyt reached its w.flush()
  destFailure,   \* the kind of the I/O error a write or the flush of jyt returned
  inputRead,     \* get_input_slice has run
  fsInput,       \* Format::from_str applied on its own: the token
  fsResult       \* and the result

vars ==
  <<pc, argv, opt, from, output, input, offset, stack, pending, buf, dest, budget,
    result, exitCode, stderr, docsRead, docsWritten, written, docEnds, docStart,
    explicitFlush, destFailure, inputRead, fsInput, fsResult>>

None == "None"
NoOpt == [to |-> None, from |-> None, file |-> None]

\* jyt's Result<(), Box<dyn Error>>, and the state before jyt has returned
NoError == [ty |-> None, kind |-> None]
NoResult == [ret |-> FALSE, ok |-> FALSE, err |-> NoError]
OkResult == [ret |-> TRUE, ok |-> TRUE, err |-> NoError]
ErrResult(e) == [ret |-> TRUE, ok |-> FALSE, err |-> e]

\* The values of -t and -f on the command line (NoArg: the flag is absent);
\* NoArgs once the command line has been parsed into an Opt
NoArg == <<"absent">>
ArgTokens ==
  {<<"j">>, <<"j", "s", "o", "n">>, <<"y">>, <<"y", "a", "m", "l">>,
   <<"t">>, <<"t", "o", "m", "l">>, <<"x">>, <<"j", "s">>}

NoArgs == [t |-> NoArg, f |-> NoArg, file |-> None]

\* The file operand (None: absent), and Path::extension of each
Files == {None, "-", "a.json", "a.yaml", "a.yml", "a.toml", "a.txt", "a"}
Extension(file) ==
  CASE file = "a.json" -> "json"
    [] file = "a.yaml" -> "yaml"
    [] file = "a.yml" -> "yml"
    [] file = "a.toml" -> "toml"
    [] file = "a.txt" -> "txt"
    [] OTHER -> None

\* Opt::detect_from
detect_from(o) ==
  IF o.from # None THEN o.from
  ELSE CASE Extension(o.file) = "json" -> "Json"
         [] Extension(o.file) \in {"yaml", "yml"} -> "Yaml"
         [] Extension(o.file) = "toml" -> "Toml"
         [] OTHER -> None


\* The error types a Box<dyn Error> of jyt holds
IoError(kind) == [ty |-> "io::Error", kind |-> kind]
SerError(out) ==
  [ty |-> IF IsJson(out) THEN "serde_json::Error" ELSE "serde_yaml::Error",
   kind |-> "Message"]
Utf8Error == [ty |-> "Utf8Error", kind |-> "Utf8"]

\* is_broken_pipe: the boxed error is an io::Error of kind BrokenPipe
is_broken_pipe(err) == err.ty = "io::Error" /\ err.kind = "BrokenPipe"

TheWriter == Writer(buf, dest, budget, written)

Init ==
  /\ pc = "main"
  /\ argv \in [t : ArgTokens \cup {NoArg}, f : ArgTokens \cup {NoArg}, file : Files]
  /\ opt = NoOpt
  /\ from = None
  /\ output = None
  /\ input = <<>>
  /\ offset = 0
  /\ stack = <<>>
  /\ pending = <<>>
  /\ buf = <<>>
  /\ dest = <<>>
  /\ budget \in Budgets
  /\ result = NoResult
  /\ exitCode = 0
  /\ stderr = <<>>
  /\ docsRead = 0
  /\ docsWritten = 0
  /\ written = <<>>
  /\ docEnds = <<>>
  /\ docStart = 0
  /\ explicitFlush = FALSE
  /\ destFailure = "none"
  /\ inputRead = FALSE
  /\ fsInput = <<>>
  /\ fsResult = Err(<<>>)

(* ------------------------------ actions ------------------------------- *)

\* main, lines 14-27: Opt::from_args_safe.  -t goes through Opt::parse_to
\* (its default "json" too), -f through Format::from_str; clap reports a value
\* that fails to parse and main prints it and exits with status 1.
ParseArgs ==
  /\ pc = "main"
  /\ LET to == parse_to(IF argv.t = NoArg THEN <<"j", "s", "o", "n">> ELSE argv.t)
         fr == IF argv.f = NoArg THEN Ok(None) ELSE from_str(argv.f)
         bad == (IF to.ok THEN {} ELSE {<<"error: ", "-t", ": ">> \o to.err}) \cup
                (IF fr.ok THEN {} ELSE {<<"error: ", "-f", ": ">> \o fr.err})
     IN
     IF bad = {}
     THEN /\ opt' = [to |-> to.val, from |-> fr.val, file |-> argv.file]
          /\ argv' = NoArgs
          /\ pc' = "jyt"
          /\ UNCHANGED <<stderr, exitCode>>
     ELSE /\ \E m \in bad : stderr' = <<"jyt ">> \o m
          /\ exitCode' = 1
          /\ pc' = "exit"
          /\ UNCHANGED <<opt, argv>>
  /\ UNCHANGED <<from, output, input, offset, stack, pending, buf, dest, budget,
                 result, docsRead, docsWritten, written, docEnds, docStart,
                 explicitFlush, destFailure, inputRead, fsInput, fsResult>>

\* jyt, lines 52-77 up to the call of transcode_all_input: read the whole
\* input (or fail to), wrap stdout, resolve the input format, build the Output.
JytSetup ==
  /\ pc = "jyt"
  /\ inputRead' = TRUE
  /\ opt' = NoOpt
  /\ LET fmt == IF detect_from(opt) = None THEN "Yaml" ELSE detect_from(opt) IN
     \/ /\ result' = ErrResult(IoError("Other"))
        /\ pc' = "ret"
        /\ UNCHANGED <<from, output, input>>
     \/ \E inp \in Inputs(fmt), tty \in BOOLEAN :
          /\ input' = inp
          /\ from' = fmt
          /\ result' = result
          /\ CASE opt.to = "Json" ->
                    /\ output' = IF tty THEN "JsonPretty" ELSE "JsonCompact"
                    /\ pc' = "loop"
               [] opt.to = "Yaml" ->
                    /\ output' = "Yaml"
                    /\ pc' = "loop"
               [] OTHER ->
                    /\ output' = output
                    /\ pc' = "panic"
  /\ UNCHANGED <<argv, offset, stack, pending, buf, dest, budget, exitCode,
                 stderr, docsRead, docsWritten, written, docEnds, docStart,
                 explicitFlush, destFailure, fsInput, fsResult>>

\* The failure is swallowed: the run goes on with the next document
AbortContinue(w, e, io) ==
  /\ result' = result
  /\ destFailure' = io
  /\ pc' = "loop"
  /\ buf' = w.buf
  /\ dest' = w.dest
  /\ budget' = w.bud
  /\ written' = w.acc

\* `?` on an Err inside jyt: jyt returns it and w is dropped on the way out
Abort(w, e, io) ==
  /\ result' = ErrResult(e)
  /\ destFailure' = io
  /\ pc' = "ret"
  /\ buf' = Drop(w).buf
  /\ dest' = Drop(w).dest
  /\ budget' = Drop(w).bud
  /\ written' = w.acc

\* The writer's state after calls that all succeeded
Keep(w) ==
  /\ buf' = w.buf
  /\ dest' = w.dest
  /\ budget' = w.bud
  /\ written' = w.acc

\* transcode_all_input returns Ok without a newline after the document
AfterDocNoFraming(fmt, out) == IF fmt = "Toml" THEN "flush" ELSE "loop"

\* Where the run goes when the serializer has finished a document: to the
\* writeln! of JsonOutput (line 151), or straight back to the driver
AfterTranscode(fmt, out) ==
  IF IsJson(out) THEN "newline" ELSE IF fmt = "Toml" THEN "flush" ELSE "loop"

\* Where the driver goes after transcode_from returned Ok: the next iteration,
\* or, for TOML, out of transcode_all_input
AfterDoc(fmt) == IF fmt = "Toml" THEN "flush" ELSE "loop"

\* an iterator that yields one (null) document for the empty stream
YamlHasNextOrEmpty(inp, off) == off < Len(inp) \/ (inp = <<>> /\ off = 0)

\* serde_yaml's document iterator: a document follows while input remains
YamlHasNext(inp, off) == off < Len(inp)

\* transcode_all_input, lines 112-113: the YAML iterator yields the next
\* document, its "---" consumed, or the loop ends
YamlNext ==
  /\ pc = "loop" /\ from = "Yaml"
  /\ IF ~YamlHasNext(input, offset)
     THEN /\ pc' = "flush"
          /\ UNCHANGED <<offset, docsRead, docStart>>
     ELSE /\ offset' = offset + 1
          /\ docStart' = offset'
          /\ docsRead' = docsRead + 1
          /\ pc' = "doc"
  /\ UNCHANGED <<argv, opt, from, output, input, stack, pending, buf, dest, budget,
                 result, exitCode, stderr, docsWritten, written, docEnds,
                 explicitFlush, destFailure, inputRead, fsInput, fsResult>>

\* transcode_all_input, lines 118-119: while let Err(_) = de.end()
JsonNext ==
  /\ pc = "loop" /\ from = "Json"
  /\ offset' = JsonEnd(input, offset).offset
  /\ IF JsonEnd(input, offset).ok
     THEN /\ pc' = "flush"
          /\ UNCHANGED <<docsRead, docStart>>
     ELSE /\ docStart' = offset'
          /\ docsRead' = docsRead + 1
          /\ pc' = "doc"
  /\ UNCHANGED <<argv, opt, from, output, input, stack, pending, buf, dest, budget,
                 result, exitCode, stderr, docsWritten, written, docEnds,
                 explicitFlush, destFailure, inputRead, fsInput, fsResult>>

\* transcode_all_input, lines 123-125: str::from_utf8(input)?, then the one
\* document
TomlNext ==
  /\ pc = "loop" /\ from = "Toml"
  /\ IF from_utf8_ok(input)
     THEN /\ docStart' = offset
          /\ docsRead' = docsRead + 1
          /\ pc' = "doc"
          /\ UNCHANGED <<buf, dest, budget, result, written, destFailure>>
     ELSE /\ Abort(TheWriter, Utf8Error, "none")
          /\ UNCHANGED <<docsRead, docStart>>
  /\ UNCHANGED <<argv, opt, from, output, input, offset, stack, pending, exitCode,
                 stderr, docsWritten, docEnds, explicitFlush, inputRead,
                 fsInput, fsResult>>

\* The document separator JsonOutput forgets to write
NoFraming == <<>>

\* JsonOutput::transcode_from, line 151: writeln!(&mut self.0, "")
JsonFraming == <<"\n">>

\* Output::transcode_from, lines 149-150 and 166-167: one step of
\* serde_transcode::transcode into the serializer.  serde_json's serializer
\* writes each event through to the BufWriter; serde_yaml's writes the
\* document when its value is complete.  Every failure comes back as the
\* serializer's error type, and `?` returns it from transcode_all_input and jyt.
TranscodeEvent ==
  /\ pc = "doc"
  /\ LET ev == Event(from, output, input, offset, stack)
         doc == pending \o ev.chunks
         w == IF IsJson(output) THEN WriteChunks(TheWriter, ev.chunks)
              ELSE IF ev.done THEN WriteChunks(TheWriter, YamlDocument(doc))
              ELSE TheWriter
     IN
     IF ev.err \/ w.err # "none"
     THEN /\ Abort(w, SerError(output), w.err)
          /\ UNCHANGED <<offset, stack, pending, docsWritten, docEnds>>
     ELSE /\ offset' = ev.offset
          /\ stack' = ev.stack
          /\ Keep(w)
          /\ pending' = IF IsJson(output) \/ ev.done THEN <<>> ELSE doc
          /\ pc' = IF ev.done THEN AfterTranscode(from, output) ELSE "doc"
          /\ IF ev.done /\ ~IsJson(output)
             THEN /\ docsWritten' = docsWritten + 1
                  /\ docEnds' = Append(docEnds, Len(w.acc))
             ELSE UNCHANGED <<docsWritten, docEnds>>
          /\ UNCHANGED <<result, destFailure>>
  /\ UNCHANGED <<argv, opt, from, output, input, exitCode, stderr, docsRead, docStart,
                 explicitFlush, inputRead, fsInput, fsResult>>

\* JsonOutput::transcode_from, lines 151-152: the newline after the document;
\* its failure is the io::Error itself
WriteNewline ==
  /\ pc = "newline"
  /\ LET w == BufWrite(TheWriter, JsonFraming) IN
     IF w.err # "none"
     THEN /\ Abort(w, IoError(w.err), w.err)
          /\ UNCHANGED <<docsWritten, docEnds>>
     ELSE /\ Keep(w)
          /\ docsWritten' = docsWritten + 1
          /\ docEnds' = Append(docEnds, Len(w.acc))
          /\ pc' = AfterDoc(from)
          /\ UNCHANGED <<result, destFailure>>
  /\ UNCHANGED <<argv, opt, from, output, input, offset, stack, pending, exitCode,
                 stderr, docsRead, docStart, explicitFlush, inputRead, fsInput,
                 fsResult>>

\* jyt, lines 79-80: w.flush()?; Ok(())
FinalFlush ==
  /\ pc = "flush"
  /\ explicitFlush' = TRUE
  /\ LET w == Flush(TheWriter) IN
     IF w.err # "none"
     THEN Abort(w, IoError(w.err), w.err)
     ELSE /\ Keep(w)
          /\ result' = OkResult
          /\ pc' = "ret"
          /\ UNCHANGED destFailure
  /\ UNCHANGED <<argv, opt, from, output, input, offset, stack, pending, exitCode,
                 stderr, docsRead, docsWritten, docEnds, docStart, inputRead,
                 fsInput, fsResult>>

\* main, lines 29-35: a broken pipe is a silent return, any other error is
\* printed and the process exits with status 1
MainResult ==
  /\ pc = "ret"
  /\ pc' = "exit"
  /\ IF result.ok \/ is_broken_pipe(result.err)
     THEN /\ exitCode' = 0
          /\ stderr' = stderr
     ELSE /\ exitCode' = 1
          /\ stderr' = <<"jyt error: ", result.err.ty, result.err.kind>>
  /\ UNCHANGED <<argv, opt, from, output, input, offset, stack, pending, buf, dest,
                 budget, result, docsRead, docsWritten, written, docEnds,
                 docStart, explicitFlush, destFailure, inputRead, fsInput,
                 fsResult>>

Next ==
  \/ ParseArgs
  \/ JytSetup
  \/ YamlNext
  \/ JsonNext
  \/ TomlNext
  \/ TranscodeEvent
  \/ WriteNewline
  \/ FinalFlush
  \/ MainResult

Spec == Init /\ [][Next]_vars

(* ---------------- Format::from_str and Opt::parse_to alone ------------ *)

\* The letters of the tokens handed to from_str
FmtChars == {"j", "s", "o", "n", "y", "a", "m", "l", "t", "J"}

FormatInit ==
  /\ pc = "call"
  /\ fsInput \in SeqsUpTo(FmtChars, MaxTokLen)
  /\ fsResult = Err(<<>>)
  /\ argv = NoArgs
  /\ opt = NoOpt
  /\ from = None
  /\ output = None
  /\ input = <<>>
  /\ offset = 0
  /\ stack = <<>>
  /\ pending = <<>>
  /\ buf = <<>>
  /\ dest = <<>>
  /\ budget = [limited |-> FALSE, left |-> 0, kind |-> "none"]
  /\ result = NoResult
  /\ exitCode = 0
  /\ stderr = <<>>
  /\ docsRead = 0
  /\ docsWritten = 0
  /\ written = <<>>
  /\ docEnds = <<>>
  /\ docStart = 0
  /\ explicitFlush = FALSE
  /\ destFailure = "none"
  /\ inputRead = FALSE

Frame ==
  UNCHANGED <<argv, opt, from, output, input, offset, stack, pending, buf, dest,
              budget, result, exitCode, stderr, docsRead, docsWritten, written,
              docEnds, docStart, explicitFlush, destFailure, inputRead, fsInput>>

\* Format::from_str(s)
FromStrCall ==
  /\ pc = "call"
  /\ fsResult' = from_str(fsInput)
  /\ pc' = "from_str"
  /\ Frame

\* Opt::parse_to(s)
ParseToCall ==
  /\ pc = "call"
  /\ fsResult' = parse_to(fsInput)
  /\ pc' = "parse_to"
  /\ Frame

FormatNext == FromStrCall \/ ParseToCall

FormatSpec == FormatInit /\ [][FormatNext]_vars

(* ------------------- what the claims are stated with ------------------ *)

\* Nesting depth of text s after its first i tokens
Depth(s, i) ==
  Cardinality({p \in 1..i : s[p] = "["}) - Cardinality({p \in 1..i : s[p] = "]"})

\* Token i of s is the last token of a top-level JSON value: the bracket that
\* closes an outermost array, or the last digit of a number outside any array
EndsValue(s, i) ==
  \/ s[i] = "]" /\ Depth(s, i) = 0
  \/ s[i] = "1" /\ Depth(s, i) = 0 /\ (i = Len(s) \/ s[i + 1] # "1")

\* The number of top-level JSON values in s
ValueCount(s) == Cardinality({i \in 1..Len(s) : EndsValue(s, i)})

\* s with one newline put after each of its top-level values and its spaces
\* dropped: the compact rendering of a well-formed value stream
NewlineTerminated(s) ==
  Flatten([i \in 1..Len(s) |->
             IF s[i] = " " THEN <<>>
             ELSE IF EndsValue(s, i) THEN <<s[i], "\n">> ELSE <<s[i]>>])

\* Only whitespace, or nothing, remains after the cursor
OnlyWs(inp, off) == \A i \in (off + 1)..Len(inp) : inp[i] = " "

\* The documents of a YAML stream: what follows each "---"
Marks(inp) == {i \in 1..Len(inp) : inp[i] = "---"}
DocCount(inp) == Cardinality(Marks(inp))
DocAt(inp, k) ==
  LET m == CHOOSE i \in Marks(inp) : Cardinality({q \in Marks(inp) : q <= i}) = k
      e == IF \E q \in Marks(inp) : q > m
           THEN (CHOOSE q \in Marks(inp) :
                   q > m /\ \A r \in Marks(inp) : r > m => q <= r) - 1
           ELSE Len(inp)
  IN SubSeq(inp, m + 1, e)

\* The well-formed documents of YamlDocs and the bytes each is rendered as
GoodDoc(d) == d \in {<<"1">>, <<"[", "1", ",", "1", "]">>, <<>>}
Rendered(d, out) ==
  CASE out = "JsonCompact" ->
         (CASE d = <<"1">> -> <<"1", "\n">>
            [] d = <<>> -> <<"null", "\n">>
            [] OTHER -> <<"[", "1", ",", "1", "]", "\n">>)
    [] out = "JsonPretty" ->
         (CASE d = <<"1">> -> <<"1", "\n">>
            [] d = <<>> -> <<"null", "\n">>
            [] OTHER -> <<"[", "\n", " ", " ", "1", ",", "\n", " ", " ", "1",
                          "\n", "]", "\n">>)
    [] out = "Yaml" ->
         (CASE d = <<"1">> -> <<"---", "\n", "1", "\n">>
            [] d = <<>> -> <<"---", "\n", "~", "\n">>
            [] OTHER -> <<"---", "\n", "-", " ", "1", "\n", "-", " ", "1", "\n">>)

\* The tokens that name TOML, and all the tokens that name a format
TomlTokens == {<<"t">>, <<"t", "o", "m", "l">>}
FormatTokens ==
  {<<"j">>, <<"j", "s", "o", "n">>, <<"y">>, <<"y", "a", "m", "l">>} \cup TomlTokens

\* The sink's length when the last complete document had been written
LastDocEnd == IF docEnds = <<>> THEN 0 ELSE docEnds[Len(docEnds)]

\* jyt returned an error while a document was being transcoded
AbortedMidDocument == result.ret /\ ~result.ok /\ docsRead > docsWritten

(* ------------------------------- claims ------------------------------- *)

\* C1: for JSON input of N top-level values and JSON output, a successful run
\* leaves exactly N values in the output, in input order, each followed by
\* exactly one newline (and with the compact formatter nothing else).
C1_ValuesNewlineTerminated ==
  (pc = "exit" /\ from = "Json" /\ IsJson(output) /\ result.ok) =>
    /\ dest = written
    /\ ValueCount(dest) = ValueCount(input)
    /\ Remove(dest, {" ", "\n"}) = Remove(input, {" "})
    /\ \A i \in 1..Len(dest) :
         /\ (dest[i] = "\n" /\ Depth(dest, i) = 0) <=> (i > 1 /\ EndsValue(dest, i - 1))
         /\ EndsValue(dest, i) => i < Len(dest)
    /\ output = "JsonCompact" => dest = NewlineTerminated(input)

\* C1's case: three values went through, compactly
C1_Witness ==
  /\ pc = "exit" /\ from = "Json" /\ output = "JsonCompact" /\ result.ok
  /\ ValueCount(input) = 3
  /\ dest = <<"1", "\n", "[", "]", "\n", "1", "\n">>

\* C2: at most one document is in flight: the driver is back at the head of
\* its loop only with every document it handed over completely written
\* (framing included, nothing pending), and a document not completely written
\* outside transcode_from means the run has aborted.
C2_OneInFlight ==
  /\ docsRead \in {docsWritten, docsWritten + 1}
  /\ Len(docEnds) = docsWritten
  /\ pc \in {"loop", "flush"} =>
       /\ docsRead = docsWritten
       /\ stack = <<>> /\ pending = <<>>
       /\ Len(written) = LastDocEnd
  /\ pc \in {"doc", "newline"} => docsRead = docsWritten + 1
  /\ docsRead > docsWritten /\ pc \notin {"doc", "newline"} =>
       result.ret /\ ~result.ok

\* C2's case: the second document is being transcoded, the first is complete
C2_Witness ==
  pc = "doc" /\ docsRead = 2 /\ docsWritten = 1 /\ stack # <<>>

\* C3: a broken pipe of the destination, wherever it strikes (serializing,
\* the newline, the final flush), ends the run silently with status 0; any
\* other I/O failure of the destination is reported.
C3_BrokenPipeSilent ==
  pc = "exit" =>
    /\ destFailure = "BrokenPipe" => exitCode = 0 /\ stderr = <<>>
    /\ destFailure = "Other" => exitCode = 1 /\ stderr # <<>>

\* C4: a document that fails aborts the run at once: the step that leaves a
\* document unfinished returns jyt's error without the explicit flush, and
\* once jyt has returned nothing more is read, transcoded, written or retried.
C4_AbortsImmediately ==
  [][ /\ (pc \in {"doc", "newline"} /\ pc' \notin {"doc", "newline"}
            /\ docsWritten' = docsWritten) =>
          (pc' = "ret" /\ result'.ret /\ ~result'.ok /\ ~explicitFlush')
      /\ result.ret =>
          (/\ docsRead' = docsRead /\ docsWritten' = docsWritten
           /\ offset' = offset /\ written' = written
           /\ explicitFlush' = explicitFlush /\ result' = result
           /\ pc' = "exit") ]_vars

\* C4's case: the second document failed with input left unread
C4_Witness ==
  /\ pc = "exit" /\ ~result.ok /\ exitCode = 1
  /\ docsRead = 2 /\ docsWritten = 1 /\ offset < Len(input) /\ ~explicitFlush

C6_NoPartialBytes ==
  (pc = "exit" /\ AbortedMidDocument) => Len(dest) <= LastDocEnd

\* C6 as amended: after an abort in the middle of a document jyt has not
\* called flush, yet the dropped BufWriter has flushed all it held: every byte
\* the sink accepted, those of the unfinished document included, has reached
\* the destination, short only of what the destination itself refused.
C6_DropFlushesPartial ==
  AbortedMidDocument =>
    /\ ~explicitFlush
    /\ dest \o buf = written
    /\ buf = <<>> \/ (budget.limited /\ budget.left = 0)

\* C6's case: bytes of the unfinished document are at the destination
C6_Witness ==
  /\ pc = "exit" /\ AbortedMidDocument /\ ~budget.limited
  /\ Len(dest) > LastDocEnd /\ LastDocEnd > 0

\* C7: -t toml and -t t are rejected while the options are parsed, with the
\* unsupported-output message, before the input is read; the Opt that reaches
\* jyt has a writable format and the panic arm is never taken.
C7_TomlOutputRejected ==
  /\ pc # "panic"
  /\ pc = "jyt" => opt.to \in {"Json", "Yaml"}
  /\ (pc # "main" /\ argv.t \in TomlTokens) =>
       /\ pc = "exit" /\ exitCode = 1
       /\ ~inputRead /\ input = <<>> /\ docsRead = 0 /\ written = <<>>
       /\ argv.f \in FormatTokens \cup {NoArg} =>
            stderr = <<"jyt ", "error: ", "-t", ": ", "t", "o", "m", "l",
                       " output is not supported">>

\* C7's case: -t t was given and refused
C7_Witness ==
  /\ pc = "exit" /\ argv.t = <<"t">> /\ argv.f = NoArg
  /\ stderr = <<"jyt ", "error: ", "-t", ": ", "t", "o", "m", "l",
                " output is not supported">>

\* C8: from_str maps j and json to JSON, y and yaml to YAML, t and toml to
\* TOML, and fails on every other token with a message that quotes the token
\* unchanged.
C8_FromStrExact ==
  pc = "from_str" =>
    /\ fsInput \in {<<"j">>, <<"j", "s", "o", "n">>} => fsResult = Ok("Json")
    /\ fsInput \in {<<"y">>, <<"y", "a", "m", "l">>} => fsResult = Ok("Yaml")
    /\ fsInput \in TomlTokens => fsResult = Ok("Toml")
    /\ fsInput \notin FormatTokens =>
         /\ ~fsResult.ok
         /\ Len(fsResult.err) = Len(fsInput) + 3
         /\ SubSeq(fsResult.err, 2, Len(fsInput) + 1) = fsInput
         /\ fsResult.err[1] = "'"
         /\ SubSeq(fsResult.err, Len(fsInput) + 2, Len(fsInput) + 3) =
              <<"'", " is not a valid format">>

\* C8's case: a proper prefix of a format name is refused
C8_Witness ==
  /\ pc = "from_str" /\ fsInput = <<"y", "a", "m">> /\ ~fsResult.ok
  /\ fsResult.err = <<"'", "y", "a", "m", "'", " is not a valid format">>

\* C9: an empty YAML input succeeds with no document: transcode_from is never
\* called and not one byte, no newline either, is written.
C9_EmptyYaml ==
  (from = "Yaml" /\ input = <<>>) =>
    /\ pc \in {"loop", "flush", "ret", "exit"}
    /\ docsRead = 0 /\ docsWritten = 0
    /\ written = <<>> /\ buf = <<>> /\ dest = <<>>
    /\ result.ret => result.ok
    /\ pc = "exit" => exitCode = 0 /\ stderr = <<>>

\* C9's case: the run on the empty YAML input is over
C9_Witness ==
  pc = "exit" /\ from = "Yaml" /\ input = <<>> /\ result.ok /\ explicitFlush

\* C10: the JSON loop terminates.  At its head it leaves with success exactly
\* when only whitespace or nothing remains, and otherwise hands one value
\* over; every step inside a value consumes input; an iteration that
\* completes has advanced the cursor past where it began; a value cut off by
\* the end of the buffer aborts; so there are at most Len(input) iterations.
C10_JsonLoopTerminates ==
  /\ [](from = "Json" => docsRead <= Len(input) /\ offset <= Len(input))
  /\ [][from = "Json" =>
          /\ pc = "loop" =>
               /\ pc' \in {"flush", "doc"}
               /\ pc' = "flush" <=> OnlyWs(input, offset)
               /\ pc' = "flush" => result' = result
          /\ (pc = "doc" /\ pc' \in {"doc", "newline"}) => offset' > offset
          /\ docsWritten' = docsWritten + 1 => offset' > docStart
          /\ (pc = "doc" /\ OnlyWs(input, offset)) => (result'.ret /\ ~result'.ok)
          /\ (pc = "doc" /\ pc' = "ret") => offset' = offset ]_vars

\* C10's case: two values and trailing whitespace, the loop left successfully
C10_Witness ==
  /\ pc = "exit" /\ from = "Json" /\ result.ok
  /\ docsWritten = 2 /\ input[Len(input)] = " "

====
